---- MODULE Spec2Model ----
(***************************************************************************)
(* A model of crab/cfg.cpp: cfg_t::remove_useless_blocks (the pruning of   *)
(* the blocks that cannot reach the exit) and type_check (the fail-fast    *)
(* type checker, type_checker_visitor, over the statements of a CFG).      *)
(***************************************************************************)
EXTENDS Integers, Sequences, FiniteSets, TLC

VARIABLES cfg, pre, nprune, tc

vars == <<cfg, pre, nprune, tc>>

(***************************************************************************)
(* Bounds of the model.                                                    *)
(***************************************************************************)
MaxBlocks == 3
MaxEdges == 3
MaxPrunes == 2
MaxStmts == 3
MaxTerms == 2
MaxCoef == 2
MaxConst == 1

(***************************************************************************)
(* Variables: variable_t carries its type and, for integers, a bit-width.  *)
(***************************************************************************)
INT_TYPE == "INT_TYPE"
ARR_INT_TYPE == "ARR_INT_TYPE"

IntVar(i, w) == [index |-> i, type |-> INT_TYPE, bw |-> w]
ArrVar(i) == [index |-> i, type |-> ARR_INT_TYPE, bw |-> 0]

Variables == {IntVar(1, 1), IntVar(2, 8), IntVar(3, 8), IntVar(4, 16), ArrVar(5)}

get_type(v) == v.type
get_bitwidth(v) == v.bw

(***************************************************************************)
(* Linear expressions: a coefficient per variable plus a constant term.    *)
(***************************************************************************)
LinExp(S, k, c) == [coef |-> [v \in Variables |-> IF v \in S THEN k ELSE 0], cst |-> c]

VarSets == {S \in SUBSET Variables : Cardinality(S) <= MaxTerms}

Exprs == {LinExp(S, k, c) : S \in VarSets, k \in 1..MaxCoef, c \in 0..MaxConst}

\* sums of distinct variables: coefficient 1, no constant term
UnitExprs == {LinExp(S, 1, 0) : S \in VarSets}

\* at most one variable: constants, single variables, scaled or shifted variables
OneVarExprs == {LinExp(S, k, c) : S \in {T \in VarSets : Cardinality(T) <= 1},
                                  k \in 1..MaxCoef, c \in 0..MaxConst}

VarsOf(e) == {v \in Variables : e.coef[v] # 0}

is_constant(e) == VarsOf(e) = {}

\* the single variable of e as a set: {v} when e is exactly v, {} otherwise
get_variable(e) == IF Cardinality(VarsOf(e)) = 1 /\ e.cst = 0
                   THEN {v \in VarsOf(e) : e.coef[v] = 1}
                   ELSE {}

equal(e1, e2) == e1 = e2

RECURSIVE SortByIndex(_)
SortByIndex(S) == IF S = {} THEN <<>>
                  ELSE LET m == CHOOSE v \in S : \A w \in S : v.index <= w.index
                       IN <<m>> \o SortByIndex(S \ {m})

\* variable_set_t is an ordered set: iteration is by increasing index
variables(e) == SortByIndex(VarsOf(e))

(***************************************************************************)
(* Control-flow graphs.                                                    *)
(***************************************************************************)
NoExit == 0

Labels(g) == DOMAIN g.blocks

has_exit(g) == g.exit # NoExit

next_nodes(g, b) == {c \in Labels(g) : <<b, c>> \in g.edges}

\* cfg_rev_t: the same blocks, the edges inverted, entry and exit exchanged
cfg_rev_t(g) == [g EXCEPT !.edges = {<<e[2], e[1]>> : e \in g.edges},
                          !.entry = g.exit, !.exit = g.entry]

\* depth-first marking of the blocks reachable from j
RECURSIVE mark_alive_blocks(_, _, _)
mark_alive_blocks(j, g, alive) ==
    IF j \in alive THEN alive
    ELSE LET RECURSIVE visit_children(_, _)
             visit_children(todo, acc) ==
                 IF todo = {} THEN acc
                 ELSE LET c == CHOOSE x \in todo : \A y \in todo : x <= y
                      IN visit_children(todo \ {c}, mark_alive_blocks(c, g, acc))
         IN visit_children(next_nodes(g, j), alive \cup {j})

\* remove one block together with every edge that touches it
remove(g, b) == [g EXCEPT !.blocks = [l \in Labels(g) \ {b} |-> g.blocks[l]],
                          !.edges = {e \in g.edges : e[1] # b /\ e[2] # b}]

RECURSIVE remove_all(_, _)
remove_all(g, useless) ==
    IF useless = {} THEN g
    ELSE LET b == CHOOSE x \in useless : \A y \in useless : x <= y
         IN remove_all(remove(g, b), useless \ {b})

\* the marking run forward from the entry instead of backward from the exit
remove_useless_blocks_fwd(g) ==
    IF ~has_exit(g) THEN g
    ELSE LET useful == mark_alive_blocks(g.entry, g, {})
             useless == {b \in Labels(g) : b \notin useful}
         IN remove_all(g, useless)

\* the has_exit test left out: nothing is marked when there is no exit
remove_useless_blocks_noguard(g) ==
    LET rev_cfg == cfg_rev_t(g)
        useful == mark_alive_blocks(rev_cfg.entry, rev_cfg, {})
        useless == {b \in Labels(g) : b \notin useful}
    IN remove_all(g, useless)

\* the removal loop left after its first block
remove_useless_blocks_one(g) ==
    IF ~has_exit(g) THEN g
    ELSE LET rev_cfg == cfg_rev_t(g)
             useful == mark_alive_blocks(rev_cfg.entry, rev_cfg, {})
             useless == {b \in Labels(g) : b \notin useful}
         IN IF useless = {} THEN g
            ELSE remove(g, CHOOSE x \in useless : \A y \in useless : x <= y)

remove_useless_blocks(g) ==
    IF ~has_exit(g) THEN g
    ELSE LET rev_cfg == cfg_rev_t(g)
             useful == mark_alive_blocks(rev_cfg.entry, rev_cfg, {})
             useless == {b \in Labels(g) : b \notin useful}
         IN remove_all(g, useless)

(***************************************************************************)
(* type_checker_visitor.  A check yields OK or the message of the error it *)
(* raises; CRAB_ERROR does not return, so the first error raised is the    *)
(* result of the visit.                                                    *)
(***************************************************************************)
OK == "ok"

\* sequencing of two checks: the second runs only when the first raised nothing
Then(r1, r2) == IF r1 # OK THEN r1 ELSE r2

\* a loop over vs whose body is a sequence of checks: the first error ends it
ForEach(vs, body(_)) ==
    IF \E i \in 1..Len(vs) : body(vs[i]) # OK
    THEN LET i == CHOOSE k \in 1..Len(vs) :
                      /\ body(vs[k]) # OK
                      /\ \A j \in 1..(k - 1) : body(vs[j]) = OK
         IN body(vs[i])
    ELSE OK

check_num(v, msg) == IF get_type(v) # INT_TYPE THEN msg ELSE OK

check_int(v, msg) == IF get_type(v) # INT_TYPE \/ get_bitwidth(v) <= 1 THEN msg ELSE OK

check_bitwidth_if_int(v, msg) ==
    IF get_type(v) = INT_TYPE /\ get_bitwidth(v) <= 1 THEN msg ELSE OK

check_same_type(v1, v2, msg) == IF get_type(v1) # get_type(v2) THEN msg ELSE OK

\* the bit-widths never compared
check_same_bitwidth_off(v1, v2, msg) == OK

\* the bit-widths compared with < instead of !=
check_same_bitwidth_lt(v1, v2, msg) ==
    IF get_type(v1) = INT_TYPE /\ get_bitwidth(v1) < get_bitwidth(v2) THEN msg ELSE OK

check_same_bitwidth(v1, v2, msg) ==
    IF get_type(v1) = INT_TYPE /\ get_bitwidth(v1) # get_bitwidth(v2) THEN msg ELSE OK

check_num_or_var(e, msg) ==
    IF ~(is_constant(e) \/ get_variable(e) # {}) THEN msg ELSE OK

check_array(v) ==
    IF get_type(v) = ARR_INT_TYPE THEN OK ELSE "must be an array variable"

check_array_and_scalar_type(v1, v2) ==
    IF get_type(v1) = ARR_INT_TYPE
    THEN IF get_type(v2) = INT_TYPE THEN OK ELSE "do not have consistent types"
    ELSE "must be an array variable"

\* the check of a single-variable operand against lhs (binary_op_t)
check_operand(lhs, e, which) ==
    LET v == CHOOSE x \in get_variable(e) : TRUE
    IN Then(check_same_type(lhs, v, which \o " operand cannot have different type from lhs"),
            check_same_bitwidth(lhs, v, which \o " operand cannot have different bitwidth from lhs"))

\* a second operand that is no variable rejected like the first
visit_binary_op_strict(s) ==
    Then(check_num(s.lhs, "lhs must be integer or real"),
    Then(check_bitwidth_if_int(s.lhs, "lhs must be have bitwidth > 1"),
    Then(IF get_variable(s.left) # {}
         THEN check_operand(s.lhs, s.left, "first")
         ELSE "first binary operand must be a variable",
         IF get_variable(s.right) # {}
         THEN check_operand(s.lhs, s.right, "second")
         ELSE "second binary operand must be a variable")))

visit_binary_op(s) ==
    Then(check_num(s.lhs, "lhs must be integer or real"),
    Then(check_bitwidth_if_int(s.lhs, "lhs must be have bitwidth > 1"),
    Then(IF get_variable(s.left) # {}
         THEN check_operand(s.lhs, s.left, "first")
         ELSE "first binary operand must be a variable",
         IF get_variable(s.right) # {}
         THEN check_operand(s.lhs, s.right, "second")
         ELSE OK)))

visit_assign(s) ==
    Then(check_num(s.lhs, "lhs must be integer or real"),
    Then(check_bitwidth_if_int(s.lhs, "lhs must be have bitwidth > 1"),
         ForEach(variables(s.rhs), LAMBDA v :
             Then(check_same_type(s.lhs, v, "variable cannot have different type from lhs"),
                  check_same_bitwidth(s.lhs, v, "variable cannot have different bitwidth from lhs")))))

\* the loop of the assume_t visitor over vs, the constraint's variables in
\* iteration order; first_var is the first variable met
assume_loop(vs) ==
    ForEach(vs, LAMBDA v :
        Then(check_num(v, "assume variables must be integer or real"),
        Then(check_same_type(vs[1], v, "inconsistent types in assume variables"),
             check_same_bitwidth(vs[1], v, "inconsistent bitwidths in assume variables"))))

visit_assume(s) == assume_loop(variables(s.constraint))

assert_loop(vs) ==
    ForEach(vs, LAMBDA v :
        Then(check_num(v, "assert variables must be integer or real"),
        Then(check_same_type(vs[1], v, "inconsistent types in assert variables"),
             check_same_bitwidth(vs[1], v, "inconsistent bitwidths in assert variables"))))

visit_assert(s) == assert_loop(variables(s.constraint))

\* the condition's bit-widths compared with that of lhs
select_cond_loop_lhs(lhs, vs) ==
    ForEach(vs, LAMBDA v :
        Then(check_num(v, "assume variables must be integer or real"),
        Then(check_same_type(lhs, v, "inconsistent types in select condition variables"),
        Then(check_same_type(vs[1], v, "inconsistent types in select condition variables"),
             check_same_bitwidth(lhs, v, "inconsistent bitwidths in select condition variables")))))

\* the loop of the select_t visitor over the condition's variables
select_cond_loop(lhs, vs) ==
    ForEach(vs, LAMBDA v :
        Then(check_num(v, "assume variables must be integer or real"),
        Then(check_same_type(lhs, v, "inconsistent types in select condition variables"),
        Then(check_same_type(vs[1], v, "inconsistent types in select condition variables"),
             check_same_bitwidth(vs[1], v, "inconsistent bitwidths in select condition variables")))))

select_operand_loop(lhs, vs) ==
    ForEach(vs, LAMBDA v :
        Then(check_same_type(lhs, v, "inconsistent types in select variables"),
             check_same_bitwidth(lhs, v, "inconsistent bitwidths in select variables")))

visit_select(s) ==
    Then(check_num(s.lhs, "lhs must be integer or real"),
    Then(check_bitwidth_if_int(s.lhs, "lhs must be have bitwidth > 1"),
    Then(select_operand_loop(s.lhs, variables(s.left)),
    Then(select_operand_loop(s.lhs, variables(s.right)),
         select_cond_loop(s.lhs, variables(s.cond))))))

visit_havoc(s) == OK

\* the check of a value operand that is a single variable against the array
check_value(a, e) ==
    IF get_variable(e) # {}
    THEN check_array_and_scalar_type(a, CHOOSE x \in get_variable(e) : TRUE)
    ELSE OK

visit_array_init(s) ==
    Then(check_array(s.array),
    Then(check_num_or_var(s.elem_size, "element size must be number or variable"),
    Then(check_num_or_var(s.lb_index, "array lower bound must be number or variable"),
    Then(check_num_or_var(s.ub_index, "array upper bound must be number or variable"),
    Then(check_num_or_var(s.val, "array value must be number or variable"),
         check_value(s.array, s.val))))))

\* the singleton test left out
visit_array_store_nosingle(s) ==
    Then(check_array(s.array),
    Then(check_num_or_var(s.elem_size, "element size must be number or variable"),
    Then(check_num_or_var(s.value, "array value must be number or variable"),
         check_value(s.array, s.value))))

visit_array_store(s) ==
    Then(IF s.is_singleton /\ ~equal(s.lb_index, s.ub_index)
         THEN "lower and upper indexes must be equal because array is a singleton"
         ELSE OK,
    Then(check_array(s.array),
    Then(check_num_or_var(s.elem_size, "element size must be number or variable"),
    Then(check_num_or_var(s.value, "array value must be number or variable"),
         check_value(s.array, s.value)))))

\* the element size left unchecked
visit_array_load_nosize(s) ==
    Then(check_array(s.array), check_array_and_scalar_type(s.array, s.lhs))

visit_array_load(s) ==
    Then(check_array(s.array),
    Then(check_num_or_var(s.elem_size, "element size must be number or variable"),
         check_array_and_scalar_type(s.array, s.lhs)))

visit_monostate(s) == OK

\* std::visit(vis, statement): the dispatch on the statement's alternative
visit(s) ==
    CASE s.kind = "binary_op" -> visit_binary_op(s)
      [] s.kind = "assign" -> visit_assign(s)
      [] s.kind = "assume" -> visit_assume(s)
      [] s.kind = "assert" -> visit_assert(s)
      [] s.kind = "select" -> visit_select(s)
      [] s.kind = "havoc" -> visit_havoc(s)
      [] s.kind = "array_init" -> visit_array_init(s)
      [] s.kind = "array_store" -> visit_array_store(s)
      [] s.kind = "array_load" -> visit_array_load(s)
      [] s.kind = "monostate" -> visit_monostate(s)

\* the statements of g in traversal order, as <<label, position>> pairs
RECURSIVE Traversal(_, _)
Traversal(g, order) ==
    IF order = <<>> THEN <<>>
    ELSE [i \in 1..Len(g.blocks[Head(order)]) |-> <<Head(order), i>>]
         \o Traversal(g, Tail(order))

StmtAt(g, p) == g.blocks[p[1]][p[2]]

\* the pass goes on after an error and reports the last one
type_check_collect(g, order) ==
    LET t == Traversal(g, order)
        bad == {i \in 1..Len(t) : visit(StmtAt(g, t[i])) # OK}
    IN IF bad = {}
       THEN [status |-> "ok", visited |-> t, msg |-> OK]
       ELSE LET k == CHOOSE i \in bad : \A j \in bad : i >= j
            IN [status |-> "error", visited |-> t, msg |-> visit(StmtAt(g, t[k]))]

\* type_check over the blocks of g met in the given order: the statements
\* visited, and the error that ended the pass if one did
type_check(g, order) ==
    LET t == Traversal(g, order)
        bad == {i \in 1..Len(t) : visit(StmtAt(g, t[i])) # OK}
    IN IF bad = {}
       THEN [status |-> "ok", visited |-> t, msg |-> OK]
       ELSE LET k == CHOOSE i \in bad : \A j \in bad : i <= j
            IN [status |-> "error", visited |-> SubSeq(t, 1, k),
                msg |-> visit(StmtAt(g, t[k]))]

\* the orders in which the elements of S can be met
Orders(S) == {o \in [1..Cardinality(S) -> S] : \A i, j \in DOMAIN o : i # j => o[i] # o[j]}

(***************************************************************************)
(* Statements.                                                             *)
(***************************************************************************)
BinaryOp(lhs, left, right) == [kind |-> "binary_op", lhs |-> lhs, left |-> left, right |-> right]
Assign(lhs, rhs) == [kind |-> "assign", lhs |-> lhs, rhs |-> rhs]
Assume(c) == [kind |-> "assume", constraint |-> c]
AssertStmt(c) == [kind |-> "assert", constraint |-> c]
Select(lhs, cond, left, right) ==
    [kind |-> "select", lhs |-> lhs, cond |-> cond, left |-> left, right |-> right]
Havoc(v) == [kind |-> "havoc", lhs |-> v]
ArrayInit(a, sz, lb, ub, val) ==
    [kind |-> "array_init", array |-> a, elem_size |-> sz, lb_index |-> lb,
     ub_index |-> ub, val |-> val]
ArrayStore(a, sz, lb, ub, val, single) ==
    [kind |-> "array_store", array |-> a, elem_size |-> sz, lb_index |-> lb,
     ub_index |-> ub, value |-> val, is_singleton |-> single]
ArrayLoad(lhs, a, sz) == [kind |-> "array_load", lhs |-> lhs, array |-> a, elem_size |-> sz]
Skip == [kind |-> "monostate"]

(***************************************************************************)
(* The state machine: a CFG, pruned and checked by its owner.  pre is the  *)
(* CFG as it was before the last prune, nprune the number of prunes, tc    *)
(* the outcome of the last type_check of the CFG as it is now.             *)
(***************************************************************************)
NoCheck == [status |-> "none", visited |-> <<>>, msg |-> OK]

\* cfg_t::remove_useless_blocks on the CFG
Prune ==
    /\ nprune < MaxPrunes
    /\ pre' = cfg
    /\ cfg' = remove_useless_blocks(cfg)
    /\ nprune' = nprune + 1
    /\ tc' = NoCheck

\* type_check on the CFG; the blocks are met in the order the block map yields
Check ==
    /\ \E order \in Orders(Labels(cfg)) : tc' = type_check(cfg, order)
    /\ UNCHANGED <<cfg, pre, nprune>>

Next == Prune \/ Check

Graph(n, E, x, body) ==
    [blocks |-> [b \in 1..n |-> body[b]], edges |-> E, entry |-> 1, exit |-> x]

EdgeSets(n) == {E \in SUBSET ((1..n) \X (1..n)) : Cardinality(E) <= MaxEdges}

Chain(n) == {<<b, b + 1>> : b \in 1..(n - 1)}

InitAt(g) ==
    /\ cfg = g
    /\ pre = g
    /\ nprune = 0
    /\ tc = NoCheck

\* a passing and a failing statement for the graphs whose shape is what varies
SampleStmts ==
    { Assign(IntVar(2, 8), LinExp({IntVar(3, 8)}, 1, 0)),
      Assign(IntVar(2, 8), LinExp({IntVar(4, 16)}, 1, 0)) }

\* graphs of every shape; the entry block holds one statement
Init ==
    \E n \in 1..MaxBlocks : \E E \in EdgeSets(n) : \E x \in 0..n : \E s \in SampleStmts :
        InitAt(Graph(n, E, x, [b \in 1..n |-> IF b = 1 THEN <<s>> ELSE <<>>]))

Spec == Init /\ [][Next]_vars

\* the statements of f that a puts in block b, in order
RECURSIVE Part(_, _, _)
Part(f, a, b) ==
    IF f = <<>> THEN <<>>
    ELSE (IF Head(a) = b THEN <<Head(f)>> ELSE <<>>) \o Part(Tail(f), Tail(a), b)

\* a passing statement and two failing ones with different errors
CheckStmts ==
    { Havoc(IntVar(1, 1)),
      Assign(IntVar(2, 8), LinExp({IntVar(4, 16)}, 1, 0)),
      ArrayLoad(IntVar(2, 8), IntVar(3, 8), LinExp({}, 1, 1)) }

\* chains of blocks over which up to MaxStmts statements are spread
InitCheck ==
    \E n \in 1..MaxBlocks : \E k \in 0..MaxStmts :
        \E f \in [1..k -> CheckStmts] : \E a \in [1..k -> 1..n] :
            InitAt(Graph(n, Chain(n), n, [b \in 1..n |-> Part(f, a, b)]))

SpecCheck == InitCheck /\ [][Next]_vars

\* a graph of one block that holds the one statement s
OneStmt(s) == Graph(1, {}, 1, <<<<s>>>>)

\* one Assign, Assume, Assert, ArrayLoad, Havoc or Skip
InitStmt ==
    \/ \E l \in Variables : \E r \in Exprs : InitAt(OneStmt(Assign(l, r)))
    \/ \E c \in Exprs : InitAt(OneStmt(Assume(c)))
    \/ \E c \in Exprs : InitAt(OneStmt(AssertStmt(c)))
    \/ \E l \in Variables : \E a \in Variables : \E sz \in Exprs :
           InitAt(OneStmt(ArrayLoad(l, a, sz)))
    \/ \E v \in Variables : InitAt(OneStmt(Havoc(v)))
    \/ InitAt(OneStmt(Skip))

SpecStmt == InitStmt /\ [][Next]_vars

\* one BinaryOp
InitBinaryOp ==
    \E l \in Variables : \E a \in Exprs : \E b \in Exprs : InitAt(OneStmt(BinaryOp(l, a, b)))

SpecBinaryOp == InitBinaryOp /\ [][Next]_vars

\* one Select; select_t reads only the variables of its operands
InitSelect ==
    \E l \in Variables : \E c \in UnitExprs : \E a \in UnitExprs : \E b \in UnitExprs :
        InitAt(OneStmt(Select(l, c, a, b)))

SpecSelect == InitSelect /\ [][Next]_vars

\* index expressions, a general one included: array_store_t only compares them
IndexExprs == {LinExp(S, 1, 0) : S \in {{}, {IntVar(2, 8)}, {IntVar(2, 8), ArrVar(5)}}}

\* one ArrayStore or ArrayInit
InitArrayStore ==
    \/ \E a \in Variables : \E sz \in OneVarExprs : \E lb \in IndexExprs : \E ub \in IndexExprs :
           \E v \in OneVarExprs : \E single \in BOOLEAN :
               InitAt(OneStmt(ArrayStore(a, sz, lb, ub, v, single)))
    \/ \E a \in Variables : \E sz \in OneVarExprs : \E lb \in IndexExprs : \E v \in OneVarExprs :
           InitAt(OneStmt(ArrayInit(a, sz, lb, lb, v)))

SpecArrayStore == InitArrayStore /\ [][Next]_vars

(***************************************************************************)
(* Properties.                                                             *)
(***************************************************************************)
Checked == tc.status # "none"

\* the first statement type_check visited, and whether it passed
HasFocus == Checked /\ Len(tc.visited) >= 1
Focus == StmtAt(cfg, tc.visited[1])
FocusPassed == ~(tc.status = "error" /\ Len(tc.visited) = 1)
FocusVerdict == IF FocusPassed THEN OK ELSE tc.msg

IsInteger(v) == v.type = INT_TYPE
IsArray(v) == v.type = ARR_INT_TYPE

\* e is a constant, or exactly one variable with coefficient 1 and no constant
ConstOrVar(e) ==
    \/ \A v \in Variables : e.coef[v] = 0
    \/ /\ e.cst = 0
       /\ \E v \in Variables : e.coef[v] = 1 /\ \A w \in Variables \ {v} : e.coef[w] = 0

\* there is a path from b to t in g (the path of no edge included)
HasPath(g, b, t) ==
    \E n \in 1..Cardinality(Labels(g)) :
        \E p \in [1..n -> Labels(g)] :
            /\ p[1] = b
            /\ p[n] = t
            /\ \A i \in 1..(n - 1) : <<p[i], p[i + 1]>> \in g.edges

\* C1: after a prune of a CFG that has an exit, the blocks present are exactly
\* the blocks from which a path led to the exit before the prune, the entry
\* block and the blocks not reachable from the entry included.
PruneExact ==
    (nprune >= 1 /\ has_exit(pre)) =>
        Labels(cfg) = {b \in Labels(pre) : HasPath(pre, b, pre.exit)}

\* a prune that removed the entry block and kept a block other than the exit
PruneExactWitness ==
    /\ nprune >= 1
    /\ has_exit(pre)
    /\ pre.entry \notin Labels(cfg)
    /\ \E b \in Labels(cfg) : b # pre.exit
    /\ Labels(cfg) # Labels(pre)

\* C2: a prune of a CFG that has no exit leaves the blocks, their statements
\* and the edges as they were.
NoExitNoOp == (nprune >= 1 /\ ~has_exit(pre)) => cfg = pre

\* a prune of a CFG with no exit, several blocks and edges between them
NoExitNoOpWitness ==
    /\ nprune >= 1
    /\ ~has_exit(pre)
    /\ Cardinality(Labels(pre)) >= 2
    /\ pre.edges # {}

\* C3: a prune of a CFG that was already pruned changes nothing.
PruneIdempotent == nprune >= 2 => cfg = pre

\* a second prune of a CFG from which the first prune removed block 2 of 3
PruneIdempotentWitness ==
    /\ nprune = 2
    /\ has_exit(cfg)
    /\ Labels(cfg) = {1, 3}

\* C4: type_check reports an error exactly when some statement of some block
\* violates its rule; it visits the statements of each block in sequence order,
\* reports the error of the first violating statement of its traversal, and
\* visits no statement after that one.
FailFast ==
    Checked =>
        /\ tc.status = "error" <=>
               \E b \in Labels(cfg) : \E i \in 1..Len(cfg.blocks[b]) : visit(cfg.blocks[b][i]) # OK
        /\ \E order \in Orders(Labels(cfg)) :
               LET t == Traversal(cfg, order)
                   n == Len(tc.visited)
               IN /\ n <= Len(t)
                  /\ tc.visited = SubSeq(t, 1, n)
                  /\ \A i \in 1..n : \A j \in 1..n :
                         (i < j /\ t[i][1] = t[j][1]) => t[i][2] < t[j][2]
                  /\ \A i \in 1..(n - 1) : visit(StmtAt(cfg, t[i])) = OK
                  /\ IF tc.status = "error"
                     THEN n >= 1 /\ tc.msg = visit(StmtAt(cfg, t[n])) /\ tc.msg # OK
                     ELSE n = Len(t) /\ tc.msg = OK

\* a check that stopped at a violating statement with a passing statement before
\* it and a violating statement with another error after it, unvisited
FailFastWitness ==
    /\ tc.status = "error"
    /\ Len(tc.visited) = 2
    /\ \E b \in Labels(cfg) : \E i \in 1..Len(cfg.blocks[b]) :
           /\ visit(cfg.blocks[b][i]) \notin {OK, tc.msg}
           /\ \A k \in 1..Len(tc.visited) : tc.visited[k] # <<b, i>>

\* C5 as stated: an Assign whose lhs is Integer of any bit-width W passes exactly
\* when every variable of rhs is Integer of bit-width W.
AssignAnyWidth ==
    (HasFocus /\ Focus.kind = "assign" /\ IsInteger(Focus.lhs)) =>
        (FocusPassed <=>
            \A v \in VarsOf(Focus.rhs) : IsInteger(v) /\ v.bw = Focus.lhs.bw)

\* C5 amended: an Assign whose lhs is Integer of a bit-width W > 1 passes exactly
\* when every variable of rhs is Integer of bit-width W.
AssignPropagation ==
    (HasFocus /\ Focus.kind = "assign" /\ IsInteger(Focus.lhs) /\ Focus.lhs.bw > 1) =>
        (FocusPassed <=>
            \A v \in VarsOf(Focus.rhs) : IsInteger(v) /\ v.bw = Focus.lhs.bw)

\* an Assign of the sum of two variables of the width of lhs, which passed
AssignPropagationWitness ==
    /\ HasFocus
    /\ Focus.kind = "assign"
    /\ IsInteger(Focus.lhs)
    /\ Focus.lhs.bw > 1
    /\ Cardinality(VarsOf(Focus.rhs)) = 2
    /\ FocusPassed

\* C6 as stated: an ArrayLoad passes exactly when array is ArrayOfInteger and lhs
\* is Integer, whatever elem_size is.
ArrayLoadAnySize ==
    (HasFocus /\ Focus.kind = "array_load") =>
        (FocusPassed <=> (IsArray(Focus.array) /\ IsInteger(Focus.lhs)))

\* C6 amended: an ArrayLoad passes exactly when array is ArrayOfInteger, lhs is
\* Integer and elem_size is a constant or a single variable.
ArrayLoadRule ==
    (HasFocus /\ Focus.kind = "array_load") =>
        (FocusPassed <=>
            (IsArray(Focus.array) /\ IsInteger(Focus.lhs) /\ ConstOrVar(Focus.elem_size)))

\* an ArrayLoad whose elem_size is a single variable that is an array, which passed
ArrayLoadRuleWitness ==
    /\ HasFocus
    /\ Focus.kind = "array_load"
    /\ \E v \in VarsOf(Focus.elem_size) : IsArray(v)
    /\ FocusPassed

\* C7: an ArrayStore with is_singleton set and unequal index expressions fails,
\* whatever its other fields; with is_singleton unset the verdict does not
\* depend on the index expressions.
SingletonStore ==
    (HasFocus /\ Focus.kind = "array_store") =>
        /\ (Focus.is_singleton /\ Focus.lb_index # Focus.ub_index) => ~FocusPassed
        /\ ~Focus.is_singleton =>
               \A lb \in IndexExprs : \A ub \in IndexExprs :
                   visit([Focus EXCEPT !.lb_index = lb, !.ub_index = ub]) = FocusVerdict

\* a singleton store with unequal indexes whose other fields are all in order
SingletonStoreWitness ==
    /\ HasFocus
    /\ Focus.kind = "array_store"
    /\ Focus.is_singleton
    /\ Focus.lb_index # Focus.ub_index
    /\ IsArray(Focus.array)
    /\ ConstOrVar(Focus.elem_size)
    /\ \E v \in Variables : IsInteger(v) /\ Focus.value = LinExp({v}, 1, 0)
    /\ ~FocusPassed

\* C8: a Select whose lhs is Integer of bit-width > 1 and whose left and right
\* variables all have the type and bit-width of lhs passes exactly when every
\* variable of cond is Integer and the cond variables all have one bit-width,
\* which need not be that of lhs.
SelectCond ==
    (/\ HasFocus
     /\ Focus.kind = "select"
     /\ IsInteger(Focus.lhs)
     /\ Focus.lhs.bw > 1
     /\ \A v \in VarsOf(Focus.left) \cup VarsOf(Focus.right) :
            IsInteger(v) /\ v.bw = Focus.lhs.bw) =>
        (FocusPassed <=>
            /\ \A c \in VarsOf(Focus.cond) : IsInteger(c)
            /\ \A c1 \in VarsOf(Focus.cond) : \A c2 \in VarsOf(Focus.cond) : c1.bw = c2.bw)

\* a Select that passed with two cond variables of a width other than that of lhs
SelectCondWitness ==
    /\ HasFocus
    /\ Focus.kind = "select"
    /\ VarsOf(Focus.left) # {}
    /\ VarsOf(Focus.right) # {}
    /\ Cardinality(VarsOf(Focus.cond)) = 2
    /\ \A c \in VarsOf(Focus.cond) : c.bw # Focus.lhs.bw
    /\ FocusPassed

\* C9: a BinaryOp passes exactly when lhs is Integer of bit-width > 1, left is a
\* single variable that is Integer of the bit-width of lhs, and right is either
\* no single variable or a single variable that is Integer of the bit-width of
\* lhs; a left operand that is a constant or a general expression fails.
BinaryOpRule ==
    (HasFocus /\ Focus.kind = "binary_op") =>
        LET Single(e) == {v \in Variables : e = LinExp({v}, 1, 0)}
            Fits(v) == IsInteger(v) /\ v.bw = Focus.lhs.bw
        IN FocusPassed <=>
               /\ IsInteger(Focus.lhs)
               /\ Focus.lhs.bw > 1
               /\ Single(Focus.left) # {}
               /\ \A v \in Single(Focus.left) : Fits(v)
               /\ \A v \in Single(Focus.right) : Fits(v)

\* a BinaryOp that passed with a right operand that is a general expression
\* over an array variable
BinaryOpRuleWitness ==
    /\ HasFocus
    /\ Focus.kind = "binary_op"
    /\ \E v \in VarsOf(Focus.right) : IsArray(v)
    /\ Focus.right.cst # 0
    /\ FocusPassed

\* C10: an Assume or an Assert passes exactly when every variable of its
\* constraint is Integer and all have one bit-width, in whatever order the
\* variables are met; a constraint of no variable passes; Assume and Assert
\* agree.
AnchorIndependence ==
    (HasFocus /\ Focus.kind \in {"assume", "assert"}) =>
        LET S == VarsOf(Focus.constraint)
            expected == /\ \A v \in S : IsInteger(v)
                        /\ \A v \in S : \A w \in S : v.bw = w.bw
        IN /\ FocusPassed <=> expected
           /\ S = {} => FocusPassed
           /\ \A p \in Orders(S) :
                  /\ assume_loop(p) = OK <=> expected
                  /\ assert_loop(p) = OK <=> expected

\* an Assume over two Integer variables of different bit-widths, which failed
AnchorIndependenceWitness ==
    /\ HasFocus
    /\ Focus.kind = "assume"
    /\ Cardinality(VarsOf(Focus.constraint)) = 2
    /\ \A v \in VarsOf(Focus.constraint) : IsInteger(v)
    /\ ~FocusPassed

====
